---- MODULE Spec2Model ----
(***************************************************************************)
(* TypeManager of the typed-variables extension of the lexical-variables   *)
(* plugin: the registry of variable types, the compatibility predicate     *)
(* and the workspace scan.                                                 *)
(*                                                                         *)
(* A type descriptor (a JavaScript string) is modelled as the sequence of  *)
(* its lexical pieces: a type word ("int", "number", ...) is one piece,    *)
(* and each of the characters "[", "]" and "*" is one piece.  No piece is  *)
(* a prefix of another, so two descriptors are the same string exactly     *)
(* when they are the same sequence, and endsWith / slice on the string     *)
(* are endsWith / slice on the sequence.                                   *)
(***************************************************************************)
EXTENDS Integers, Sequences, FiniteSets, TLC

VARIABLES
    variableTypes,   \* this.variableTypes : Map name -> {type, scope, declared}
    blockTypes,      \* this.blockTypes    : Map block id -> type info
    typeErrors,      \* this.typeErrors    : Array of diagnostics
    workspace,       \* this.workspace.getAllBlocks(false): the blocks, in order
    scanIndex,       \* 0, or the position of checkTypeErrors in its loop
    ret,             \* the last call that returned a value, and the value
    targetType,      \* argument of the areTypesCompatible call under study
    sourceType,      \* argument of the areTypesCompatible call under study
    compatResult     \* << >> before that call returns, <<its result>> after

vars == <<variableTypes, blockTypes, typeErrors, workspace, scanIndex, ret,
          targetType, sourceType, compatResult>>

registry == <<variableTypes, blockTypes, typeErrors>>
compat == <<targetType, sourceType, compatResult>>

(***************************************************************************)
(* Bounds.                                                                 *)
(***************************************************************************)
\* number of array / pointer suffixes a descriptor carries at most
MaxSuffix == 2

\* number of blocks the workspace holds at most
MaxBlocks == 2

(***************************************************************************)
(* Strings.                                                                *)
(***************************************************************************)
\* String.prototype.endsWith
endsWith(str, suffix) ==
    /\ Len(str) >= Len(suffix)
    /\ SubSeq(str, Len(str) - Len(suffix) + 1, Len(str)) = suffix

\* String.prototype.slice(0, -n)
slice(str, n) ==
    SubSeq(str, 1, IF Len(str) > n THEN Len(str) - n ELSE 0)

\* Array.prototype.includes
includes(arr, x) == \E i \in DOMAIN arr : arr[i] = x

ArraySuffix == <<"[", "]">>
PointerSuffix == <<"*">>

\* the type words the descriptors of the model are built from; "" is the
\* empty word
TypeWords ==
    { <<"any">>, <<"number">>, <<"int">>, <<"float">>, <<"double">>,
      <<"string">>, <<"boolean">>, << >> }

RECURSIVE Suffixed(_, _)
Suffixed(S, n) ==
    IF n = 0 THEN S
    ELSE LET T == Suffixed(S, n - 1)
         IN  T \cup { t \o ArraySuffix : t \in T } \cup { t \o PointerSuffix : t \in T }

\* the descriptors the checks range over
TypeDescriptors == Suffixed(TypeWords, MaxSuffix)

(***************************************************************************)
(* areTypesCompatible                                                      *)
(***************************************************************************)
AnyRule_targetOnly(target, source) ==
    target = <<"any">>

AnyRule_sourceOnly(target, source) ==
    source = <<"any">>

\* if (targetType === 'any' || sourceType === 'any')
AnyRule(target, source) ==
    target = <<"any">> \/ source = <<"any">>

ExactRule_never(target, source) ==
    FALSE

\* if (targetType === sourceType)
ExactRule(target, source) ==
    target = source

numericTypes_noDouble ==
    << <<"number">>, <<"int">>, <<"float">> >>

numericTypes ==
    << <<"number">>, <<"int">>, <<"float">>, <<"double">> >>

NumericRule_either(target, source) ==
    includes(numericTypes, target) \/ includes(numericTypes, source)

\* if (numericTypes.includes(targetType) && numericTypes.includes(sourceType))
NumericRule(target, source) ==
    includes(numericTypes, target) /\ includes(numericTypes, source)

\* if (targetType.endsWith('[]') && sourceType.endsWith('[]'))
ArrayRule(target, source) ==
    endsWith(target, ArraySuffix) /\ endsWith(source, ArraySuffix)

ArrayBase_sliceOne(type) ==
    slice(type, 1)

\* targetType.slice(0, -2)
ArrayBase(type) ==
    slice(type, 2)

PointerRule_never(target, source) ==
    FALSE

\* if (targetType.endsWith('*') && sourceType.endsWith('*'))
PointerRule(target, source) ==
    endsWith(target, PointerSuffix) /\ endsWith(source, PointerSuffix)

\* targetType.slice(0, -1)
PointerBase(type) ==
    slice(type, 1)

RECURSIVE areTypesCompatible(_, _)
areTypesCompatible(target, source) ==
    IF AnyRule(target, source) THEN TRUE
    ELSE IF ExactRule(target, source) THEN TRUE
    ELSE IF NumericRule(target, source) THEN TRUE
    ELSE IF ArrayRule(target, source)
         THEN areTypesCompatible(ArrayBase(target), ArrayBase(source))
    ELSE IF PointerRule(target, source)
         THEN areTypesCompatible(PointerBase(target), PointerBase(source))
    ELSE FALSE

(***************************************************************************)
(* JavaScript values.                                                      *)
(***************************************************************************)
\* null: a value that is no descriptor
Null == <<"<null>">>

\* new Map()
EmptyMap == << >>

\* Map.prototype.has
MapHas(map, key) == key \in DOMAIN map

\* Map.prototype.set
MapSet(map, key, value) ==
    [k \in DOMAIN map \cup {key} |-> IF k = key THEN value ELSE map[k]]

\* the truth value of a string or null in a condition
Truthy(value) == value # Null /\ value # << >>

(***************************************************************************)
(* The inputs of the model.                                                *)
(***************************************************************************)
VarNames == {"counter", "name"}
\* the types of the declarations and of the registrations between scans
VarTypes == { <<"number">>, <<"string">> }
\* the types a getter expects and a setter assigns
UseTypes == VarTypes \cup { <<"int">> }
\* the types of the registrations made through the API alone
ApiTypes ==
    UseTypes \cup { <<"any">>, << >>, <<"int", "*">>, <<"number", "[", "]">> }
Scopes == {"global", "local"}
\* a call that leaves the scope argument out
Omitted == "<omitted>"

\* a block of the workspace: its type, the name in its NAME / VAR field and
\* the type in its TYPE field or typed variable field
Blocks ==
    [type : {"typed_global_declaration", "typed_local_declaration_statement"},
     name : VarNames, varType : VarTypes]
        \cup [type : {"typed_lexical_variable_get", "typed_lexical_variable_set"},
              name : VarNames, varType : UseTypes]
        \cup {[type |-> "controls_if", name |-> "counter", varType |-> <<"number">>]}

\* block.getFieldValue(field)
getFieldValue(block, field) ==
    IF field = "TYPE" THEN block.varType
    ELSE IF field = "NAME" /\ block.type = "typed_global_declaration" THEN block.name
    ELSE IF field = "VAR" /\ block.type # "typed_global_declaration" THEN block.name
    ELSE Null

\* block.getVariableType()
blockGetVariableType(block) == block.varType

(***************************************************************************)
(* The state after construction.                                           *)
(***************************************************************************)
NoReturn == [op |-> "none"]

Init ==
    /\ variableTypes = EmptyMap
    /\ blockTypes = EmptyMap
    /\ typeErrors = << >>
    /\ workspace = << >>
    /\ scanIndex = 0
    /\ ret = NoReturn
    /\ targetType = << >>
    /\ sourceType = << >>
    /\ compatResult = << >>

Idle == scanIndex = 0

(***************************************************************************)
(* The workspace: workspace.newBlock(type) and the setting of its fields.  *)
(***************************************************************************)
NewBlock(block) ==
    /\ Idle
    /\ Len(workspace) < MaxBlocks
    /\ workspace' = Append(workspace, block)
    /\ ret' = NoReturn
    /\ UNCHANGED <<registry, scanIndex, compat>>

(***************************************************************************)
(* registerVariable, getVariableType, isVariableDeclared                   *)
(***************************************************************************)
\* {type: type, scope: scope, declared: true}, scope = 'local' by default
VariableRecord(type, scope) ==
    [type |-> type,
     scope |-> IF scope = Omitted THEN "local" ELSE scope,
     declared |-> TRUE]

registerVariable_keepExisting(map, variableName, type, scope) ==
    IF MapHas(map, variableName) THEN map
    ELSE MapSet(map, variableName, VariableRecord(type, scope))

\* this.variableTypes.set(variableName, {...})
registerVariable(map, variableName, type, scope) ==
    MapSet(map, variableName, VariableRecord(type, scope))

getVariableType_emptyIsNull(map, variableName) ==
    IF MapHas(map, variableName) /\ Truthy(map[variableName].type)
    THEN map[variableName].type
    ELSE Null

\* const varInfo = this.variableTypes.get(variableName);
\* return varInfo ? varInfo.type : null;
getVariableType(map, variableName) ==
    IF MapHas(map, variableName) THEN map[variableName].type ELSE Null

\* return this.variableTypes.has(variableName);
isVariableDeclared(map, variableName) == MapHas(map, variableName)

RegisterVariable(variableName, type, scope) ==
    /\ Idle
    /\ variableTypes' = registerVariable(variableTypes, variableName, type, scope)
    /\ ret' = NoReturn
    /\ UNCHANGED <<blockTypes, typeErrors, workspace, scanIndex, compat>>

GetVariableType(variableName) ==
    /\ Idle
    /\ ret' = [op |-> "getVariableType", arg |-> variableName,
               value |-> getVariableType(variableTypes, variableName)]
    /\ UNCHANGED <<registry, workspace, scanIndex, compat>>

IsVariableDeclared(variableName) ==
    /\ Idle
    /\ ret' = [op |-> "isVariableDeclared", arg |-> variableName,
               value |-> isVariableDeclared(variableTypes, variableName)]
    /\ UNCHANGED <<registry, workspace, scanIndex, compat>>

(***************************************************************************)
(* checkTypeErrors and checkBlockTypeErrors                                *)
(***************************************************************************)
\* `Type mismatch: expected ${expectedType}, got ${actualType} for variable ${varName}`
GetMismatchMessage(expectedType, actualType, varName) ==
    <<"Type mismatch: expected ">> \o expectedType \o <<", got ">> \o actualType
        \o <<" for variable ", varName>>

\* `Type mismatch: cannot assign ${expectedType} to variable ${varName} of type ${actualType}`
SetMismatchMessage(expectedType, varName, actualType) ==
    <<"Type mismatch: cannot assign ">> \o expectedType \o <<" to variable ", varName>>
        \o <<" of type ">> \o actualType

\* `Variable ${varName} is already declared`
AlreadyDeclaredMessage(varName) ==
    <<"Variable ", varName, " is already declared">>

\* {block: block, message: ..., severity: 'error'}; a block is referred to by
\* its position in the workspace
Diagnostic(blockRef, message) ==
    [block |-> blockRef, message |-> message, severity |-> "error"]

\* if (blockType === 'typed_lexical_variable_get') {...}
CheckGetter(st, block, blockRef) ==
    IF block.type = "typed_lexical_variable_get"
    THEN LET varName == getFieldValue(block, "VAR")
             expectedType == blockGetVariableType(block)
             actualType == getVariableType(st.variableTypes, varName)
         IN  IF Truthy(actualType) /\ ~areTypesCompatible(expectedType, actualType)
             THEN [st EXCEPT !.typeErrors = Append(@,
                      Diagnostic(blockRef, GetMismatchMessage(expectedType, actualType, varName)))]
             ELSE st
    ELSE st

CheckSetter_flagUndeclared(st, block, blockRef) ==
    IF block.type = "typed_lexical_variable_set"
    THEN LET varName == getFieldValue(block, "VAR")
             expectedType == blockGetVariableType(block)
             actualType == getVariableType(st.variableTypes, varName)
         IN  IF ~areTypesCompatible(actualType, expectedType)
             THEN [st EXCEPT !.typeErrors = Append(@,
                      Diagnostic(blockRef, SetMismatchMessage(expectedType, varName, actualType)))]
             ELSE st
    ELSE st

CheckSetter_pushTwice(st, block, blockRef) ==
    IF block.type = "typed_lexical_variable_set"
    THEN LET varName == getFieldValue(block, "VAR")
             expectedType == blockGetVariableType(block)
             actualType == getVariableType(st.variableTypes, varName)
             error == Diagnostic(blockRef, SetMismatchMessage(expectedType, varName, actualType))
         IN  IF Truthy(actualType) /\ ~areTypesCompatible(actualType, expectedType)
             THEN [st EXCEPT !.typeErrors = Append(Append(@, error), error)]
             ELSE st
    ELSE st

\* if (blockType === 'typed_lexical_variable_set') {...}
CheckSetter(st, block, blockRef) ==
    IF block.type = "typed_lexical_variable_set"
    THEN LET varName == getFieldValue(block, "VAR")
             expectedType == blockGetVariableType(block)
             actualType == getVariableType(st.variableTypes, varName)
         IN  IF Truthy(actualType) /\ ~areTypesCompatible(actualType, expectedType)
             THEN [st EXCEPT !.typeErrors = Append(@,
                      Diagnostic(blockRef, SetMismatchMessage(expectedType, varName, actualType)))]
             ELSE st
    ELSE st

DeclarationScope_alwaysLocal(blockType) ==
    "local"

\* blockType === 'typed_global_declaration' ? 'global' : 'local'
DeclarationScope(blockType) ==
    IF blockType = "typed_global_declaration" THEN "global" ELSE "local"

DeclareDuplicate_overwrite(st, block, blockRef, varName, declaredType) ==
    [variableTypes |-> registerVariable(st.variableTypes, varName, declaredType,
                                        DeclarationScope(block.type)),
     typeErrors |-> Append(st.typeErrors, Diagnostic(blockRef, AlreadyDeclaredMessage(varName)))]

\* this.typeErrors.push({... `Variable ${varName} is already declared` ...})
DeclareDuplicate(st, block, blockRef, varName, declaredType) ==
    [st EXCEPT !.typeErrors = Append(@, Diagnostic(blockRef, AlreadyDeclaredMessage(varName)))]

\* if (blockType === 'typed_global_declaration' ||
\*     blockType === 'typed_local_declaration_statement') {...}
CheckDeclaration(st, block, blockRef) ==
    IF block.type \in {"typed_global_declaration", "typed_local_declaration_statement"}
    THEN LET varName == getFieldValue(block,
                 IF block.type = "typed_global_declaration" THEN "NAME" ELSE "VAR")
             declaredType == getFieldValue(block, "TYPE")
         IN  IF isVariableDeclared(st.variableTypes, varName)
             THEN DeclareDuplicate(st, block, blockRef, varName, declaredType)
             ELSE [st EXCEPT !.variableTypes =
                      registerVariable(@, varName, declaredType, DeclarationScope(block.type))]
    ELSE st

checkBlockTypeErrors_flagOtherKinds(st, block, blockRef) ==
    IF block.type \in {"typed_lexical_variable_get", "typed_lexical_variable_set",
                       "typed_global_declaration", "typed_local_declaration_statement"}
    THEN CheckDeclaration(CheckSetter(CheckGetter(st, block, blockRef), block, blockRef),
                          block, blockRef)
    ELSE [st EXCEPT !.typeErrors = Append(@,
             Diagnostic(blockRef, <<"Unknown block type ", block.type>>))]

\* checkBlockTypeErrors(block), on the variable map and the diagnostics
checkBlockTypeErrors(st, block, blockRef) ==
    CheckDeclaration(CheckSetter(CheckGetter(st, block, blockRef), block, blockRef),
                     block, blockRef)

\* for (const block of blocks) { this.checkBlockTypeErrors(block); }, from
\* the block at position index to the end of the list
RECURSIVE checkBlocksFrom(_, _, _)
checkBlocksFrom(st, blocks, index) ==
    IF index > Len(blocks) THEN st
    ELSE checkBlocksFrom(checkBlockTypeErrors(st, blocks[index], index), blocks, index + 1)

CheckTypeErrors_clearVariables ==
    /\ Idle
    /\ typeErrors' = << >>
    /\ variableTypes' = EmptyMap
    /\ scanIndex' = 1
    /\ ret' = NoReturn
    /\ UNCHANGED <<blockTypes, workspace, compat>>

CheckTypeErrors_keepList ==
    /\ Idle
    /\ scanIndex' = 1
    /\ ret' = NoReturn
    /\ UNCHANGED <<variableTypes, blockTypes, typeErrors, workspace, compat>>

\* this.typeErrors = []; const blocks = this.workspace.getAllBlocks(false);
CheckTypeErrors ==
    /\ Idle
    /\ typeErrors' = << >>
    /\ scanIndex' = 1
    /\ ret' = NoReturn
    /\ UNCHANGED <<variableTypes, blockTypes, workspace, compat>>

\* for (const block of blocks) { this.checkBlockTypeErrors(block); }
CheckBlockTypeErrors ==
    /\ scanIndex \in 1..Len(workspace)
    /\ LET st == checkBlockTypeErrors(
                     [variableTypes |-> variableTypes, typeErrors |-> typeErrors],
                     workspace[scanIndex], scanIndex)
       IN  /\ variableTypes' = st.variableTypes
           /\ typeErrors' = st.typeErrors
    /\ scanIndex' = scanIndex + 1
    /\ UNCHANGED <<blockTypes, workspace, ret, compat>>

\* return this.typeErrors;
CheckTypeErrorsReturn ==
    /\ scanIndex = Len(workspace) + 1
    /\ scanIndex' = 0
    /\ ret' = [op |-> "checkTypeErrors", arg |-> "", value |-> typeErrors]
    /\ UNCHANGED <<registry, workspace, compat>>

(***************************************************************************)
(* The registry driven by its caller.                                      *)
(***************************************************************************)
Next ==
    \/ \E block \in Blocks : NewBlock(block)
    \/ \E n \in VarNames, t \in VarTypes, s \in Scopes : RegisterVariable(n, t, s)
    \/ CheckTypeErrors
    \/ CheckBlockTypeErrors
    \/ CheckTypeErrorsReturn

Spec == Init /\ [][Next]_vars

(***************************************************************************)
(* The registry used through its API alone, on an empty workspace.         *)
(***************************************************************************)
NextApi ==
    \/ \E n \in VarNames, t \in ApiTypes, s \in Scopes \cup {Omitted} :
          RegisterVariable(n, t, s)
    \/ \E n \in VarNames : GetVariableType(n)
    \/ \E n \in VarNames : IsVariableDeclared(n)

SpecApi == Init /\ [][NextApi]_vars

(***************************************************************************)
(* Reads and writes of variables registered through the API: the scan of a *)
(* workspace of getter and setter blocks.                                  *)
(***************************************************************************)
UseBlocks ==
    [type : {"typed_lexical_variable_get", "typed_lexical_variable_set"},
     name : VarNames, varType : UseTypes]

\* the types registered before such a scan
UseRegTypes == VarTypes \cup { <<"any">>, << >> }

NextUse ==
    \/ \E block \in UseBlocks : NewBlock(block)
    \/ \E n \in VarNames, t \in UseRegTypes : RegisterVariable(n, t, Omitted)
    \/ CheckTypeErrors
    \/ CheckBlockTypeErrors
    \/ CheckTypeErrorsReturn

SpecUse == Init /\ [][NextUse]_vars

(***************************************************************************)
(* registerBlockType, getBlockType                                         *)
(***************************************************************************)
\* a type-info value: what kind of JavaScript value it is, and its content
InfoPlain == [js |-> "object", content |-> <<"type", "number">>]
\* new Map([['type', 'number']])
InfoMap == [js |-> "Map", content |-> <<"type", "number">>]
\* the number 0
InfoZero == [js |-> "number", content |-> <<"0">>]
\* {}
InfoEmpty == [js |-> "object", content |-> << >>]
\* null, where a type-info value is expected
NullInfo == [js |-> "null", content |-> << >>]

Infos == {InfoPlain, InfoMap, InfoZero}
BlockIds == {"counter", "block1"}

\* the truth value of a type-info value in a condition
TruthyInfo(info) == info # NullInfo /\ info # InfoZero

registerBlockType_ignore(map, blockId, typeInfo) == map

\* this.blockTypes.set(blockId, typeInfo);
registerBlockType(map, blockId, typeInfo) == MapSet(map, blockId, typeInfo)

\* return this.blockTypes.get(blockId) || null;
getBlockType(map, blockId) ==
    IF MapHas(map, blockId) /\ TruthyInfo(map[blockId]) THEN map[blockId]
    ELSE NullInfo

RegisterBlockType(blockId, typeInfo) ==
    /\ Idle
    /\ blockTypes' = registerBlockType(blockTypes, blockId, typeInfo)
    /\ ret' = NoReturn
    /\ UNCHANGED <<variableTypes, typeErrors, workspace, scanIndex, compat>>

GetBlockType(blockId) ==
    /\ Idle
    /\ ret' = [op |-> "getBlockType", arg |-> blockId,
               value |-> getBlockType(blockTypes, blockId)]
    /\ UNCHANGED <<registry, workspace, scanIndex, compat>>

(***************************************************************************)
(* getTypeErrors, clearTypeErrors, getVariableTypeSummary, reset           *)
(***************************************************************************)
GetTypeErrors_clears ==
    /\ Idle
    /\ typeErrors' = << >>
    /\ ret' = [op |-> "getTypeErrors", arg |-> "", value |-> << >>]
    /\ UNCHANGED <<variableTypes, blockTypes, workspace, scanIndex, compat>>

\* return this.typeErrors;
GetTypeErrors ==
    /\ Idle
    /\ ret' = [op |-> "getTypeErrors", arg |-> "", value |-> typeErrors]
    /\ UNCHANGED <<registry, workspace, scanIndex, compat>>

ClearTypeErrors_clearMaps ==
    /\ Idle
    /\ variableTypes' = EmptyMap
    /\ blockTypes' = EmptyMap
    /\ typeErrors' = << >>
    /\ ret' = [op |-> "clearTypeErrors", arg |-> "", value |-> "undefined"]
    /\ UNCHANGED <<workspace, scanIndex, compat>>

\* this.typeErrors = [];
ClearTypeErrors ==
    /\ Idle
    /\ typeErrors' = << >>
    /\ ret' = [op |-> "clearTypeErrors", arg |-> "", value |-> "undefined"]
    /\ UNCHANGED <<variableTypes, blockTypes, workspace, scanIndex, compat>>

\* const summary = {}; summary[varName] = typeInfo, for every entry of
\* this.variableTypes.  The assignment summary['__proto__'] = typeInfo sets
\* the prototype of summary and creates no entry.
getVariableTypeSummary(map) ==
    [varName \in DOMAIN map \ {"__proto__"} |-> map[varName]]

GetVariableTypeSummary ==
    /\ Idle
    /\ ret' = [op |-> "getVariableTypeSummary", arg |-> "",
               value |-> getVariableTypeSummary(variableTypes)]
    /\ UNCHANGED <<registry, workspace, scanIndex, compat>>

reset_keepBlockTypes(st) ==
    [variableTypes |-> EmptyMap, blockTypes |-> st.blockTypes, typeErrors |-> << >>]

\* this.variableTypes.clear(); this.blockTypes.clear(); this.typeErrors = [];
reset(st) ==
    [variableTypes |-> EmptyMap, blockTypes |-> EmptyMap, typeErrors |-> << >>]

\* the three stores of the registry, as one value
Stores ==
    [variableTypes |-> variableTypes, blockTypes |-> blockTypes,
     typeErrors |-> typeErrors]

Reset ==
    /\ Idle
    /\ LET st == reset(Stores)
       IN  /\ variableTypes' = st.variableTypes
           /\ blockTypes' = st.blockTypes
           /\ typeErrors' = st.typeErrors
    /\ ret' = [op |-> "reset", arg |-> "", value |-> "undefined"]
    /\ UNCHANGED <<workspace, scanIndex, compat>>

(***************************************************************************)
(* exportTypeInfo, importTypeInfo.  A JSON text is modelled by what        *)
(* JSON.parse makes of it.                                                 *)
(***************************************************************************)
\* what a block of a diagnostic is after JSON.stringify and JSON.parse: an
\* object that is no block of the workspace
JsonBlock == 0

\* JSON.stringify, then JSON.parse, of a type-info value: a Map has no
\* enumerable properties of its own and is written as {}
JsonInfo(info) == IF info.js = "Map" THEN InfoEmpty ELSE info

\* JSON.stringify, then JSON.parse, of a variable record: two strings and a
\* boolean
JsonRecord(varInfo) ==
    [type |-> varInfo.type, scope |-> varInfo.scope, declared |-> varInfo.declared]

\* JSON.stringify, then JSON.parse, of a diagnostic
JsonDiagnostic(error) ==
    [block |-> JsonBlock, message |-> error.message, severity |-> error.severity]

\* a text that JSON.parse rejects
Unparsable ==
    [kind |-> "unparsable", has |-> {}, variableTypes |-> EmptyMap,
     blockTypes |-> EmptyMap, typeErrors |-> << >>]

\* the text 'null'
NullText ==
    [kind |-> "null", has |-> {}, variableTypes |-> EmptyMap,
     blockTypes |-> EmptyMap, typeErrors |-> << >>]

\* the text of an object: the top-level fields it has, and their values
ObjectText(has, vt, bt, te) ==
    [kind |-> "object", has |-> has, variableTypes |-> vt, blockTypes |-> bt,
     typeErrors |-> te]

exportTypeInfo_dropBlockTypes(st) ==
    ObjectText({"variableTypes", "typeErrors"},
               [k \in DOMAIN st.variableTypes |-> JsonRecord(st.variableTypes[k])],
               EmptyMap,
               [i \in DOMAIN st.typeErrors |-> JsonDiagnostic(st.typeErrors[i])])

\* JSON.stringify({variableTypes: Object.fromEntries(this.variableTypes),
\*   blockTypes: Object.fromEntries(this.blockTypes),
\*   typeErrors: this.typeErrors}, null, 2)
exportTypeInfo(st) ==
    ObjectText({"variableTypes", "blockTypes", "typeErrors"},
               [k \in DOMAIN st.variableTypes |-> JsonRecord(st.variableTypes[k])],
               [k \in DOMAIN st.blockTypes |-> JsonInfo(st.blockTypes[k])],
               [i \in DOMAIN st.typeErrors |-> JsonDiagnostic(st.typeErrors[i])])

importTypeInfo_merge(st, jsonString) ==
    IF jsonString.kind # "object" THEN st
    ELSE [variableTypes |->
              [k \in DOMAIN st.variableTypes \cup DOMAIN jsonString.variableTypes |->
                  IF k \in DOMAIN jsonString.variableTypes
                  THEN jsonString.variableTypes[k] ELSE st.variableTypes[k]],
          blockTypes |->
              [k \in DOMAIN st.blockTypes \cup DOMAIN jsonString.blockTypes |->
                  IF k \in DOMAIN jsonString.blockTypes
                  THEN jsonString.blockTypes[k] ELSE st.blockTypes[k]],
          typeErrors |-> st.typeErrors \o jsonString.typeErrors]

importTypeInfo_resetOnFailure(st, jsonString) ==
    IF jsonString.kind # "object" THEN reset(st)
    ELSE [variableTypes |-> jsonString.variableTypes,
          blockTypes |-> jsonString.blockTypes,
          typeErrors |-> jsonString.typeErrors]

\* try { const data = JSON.parse(jsonString);
\*       this.variableTypes = new Map(Object.entries(data.variableTypes || {}));
\*       this.blockTypes = new Map(Object.entries(data.blockTypes || {}));
\*       this.typeErrors = data.typeErrors || [];
\* } catch (error) { console.error(...) }
\* JSON.parse throws on an unparsable text and data.variableTypes throws on
\* null: both before the first assignment
importTypeInfo(st, jsonString) ==
    IF jsonString.kind = "unparsable" THEN st
    ELSE IF jsonString.kind = "null" THEN st
    ELSE [variableTypes |->
              IF "variableTypes" \in jsonString.has
              THEN jsonString.variableTypes ELSE EmptyMap,
          blockTypes |->
              IF "blockTypes" \in jsonString.has
              THEN jsonString.blockTypes ELSE EmptyMap,
          typeErrors |->
              IF "typeErrors" \in jsonString.has
              THEN jsonString.typeErrors ELSE << >>]

\* the texts handed to importTypeInfo, besides an export of the registry
OnlyVariables ==
    ObjectText({"variableTypes"},
               [k \in {"name"} |-> VariableRecord(<<"string">>, "global")],
               EmptyMap, << >>)
NoVariables ==
    ObjectText({"blockTypes", "typeErrors"}, EmptyMap,
               [k \in {"block1"} |-> InfoPlain],
               <<[block |-> JsonBlock, message |-> AlreadyDeclaredMessage("name"),
                  severity |-> "error"]>>)
Texts == {Unparsable, NullText, ObjectText({}, EmptyMap, EmptyMap, << >>),
          OnlyVariables, NoVariables}

ExportTypeInfo ==
    /\ Idle
    /\ ret' = [op |-> "exportTypeInfo", arg |-> "", value |-> exportTypeInfo(Stores)]
    /\ UNCHANGED <<registry, workspace, scanIndex, compat>>

\* the call returns undefined, after console.error when the try block threw
ImportTypeInfo(jsonString) ==
    /\ Idle
    /\ LET st == importTypeInfo(Stores, jsonString)
       IN  /\ variableTypes' = st.variableTypes
           /\ blockTypes' = st.blockTypes
           /\ typeErrors' = st.typeErrors
    /\ ret' = [op |-> "importTypeInfo", arg |-> jsonString,
               value |-> IF jsonString.kind = "object" THEN "undefined"
                         ELSE "undefined, error logged"]
    /\ UNCHANGED <<workspace, scanIndex, compat>>

(***************************************************************************)
(* The whole life of a registry: registrations, scans, clear, reset,       *)
(* export and import.                                                      *)
(***************************************************************************)
LifeBlocks ==
    {[type |-> "typed_local_declaration_statement", name |-> "counter",
      varType |-> <<"number">>],
     [type |-> "typed_lexical_variable_set", name |-> "counter",
      varType |-> <<"string">>]}

NextLife ==
    \/ \E block \in LifeBlocks : NewBlock(block)
    \/ \E t \in VarTypes : RegisterVariable("counter", t, "global")
    \/ \E id \in BlockIds, info \in Infos : RegisterBlockType(id, info)
    \/ \E id \in BlockIds : GetBlockType(id)
    \/ CheckTypeErrors
    \/ CheckBlockTypeErrors
    \/ CheckTypeErrorsReturn
    \/ GetTypeErrors
    \/ ClearTypeErrors
    \/ Reset
    \/ ExportTypeInfo
    \/ \E jsonString \in Texts \cup {exportTypeInfo(Stores)} :
           ImportTypeInfo(jsonString)

SpecLife == Init /\ [][NextLife]_vars

(***************************************************************************)
(* The summary of the variable map, of a registry driven through           *)
(* registerVariable and reset.                                             *)
(***************************************************************************)
\* the names registered: an ordinary one and one that is the name of a
\* property of Object.prototype
SummaryNames == {"counter", "__proto__"}

NextSummary ==
    \/ \E n \in SummaryNames, t \in ApiTypes, s \in Scopes \cup {Omitted} :
           RegisterVariable(n, t, s)
    \/ GetVariableTypeSummary
    \/ Reset

SpecSummary == Init /\ [][NextSummary]_vars

(***************************************************************************)
(* The compatibility predicate on its own: a call with any two descriptors *)
(***************************************************************************)
InitCompat ==
    /\ variableTypes = EmptyMap
    /\ blockTypes = EmptyMap
    /\ typeErrors = << >>
    /\ workspace = << >>
    /\ scanIndex = 0
    /\ ret = NoReturn
    /\ targetType \in TypeDescriptors
    /\ sourceType \in TypeDescriptors
    /\ compatResult = << >>

CallAreTypesCompatible ==
    /\ compatResult = << >>
    /\ compatResult' = <<areTypesCompatible(targetType, sourceType)>>
    /\ UNCHANGED <<registry, workspace, scanIndex, ret, targetType, sourceType>>

NextCompat == CallAreTypesCompatible

SpecCompat == InitCompat /\ [][NextCompat]_vars

Returned == compatResult # << >>

(***************************************************************************)
(* Properties of areTypesCompatible, under SpecCompat.                     *)
(***************************************************************************)
IntPtr == <<"int", "*">>
FloatPtr == <<"float", "*">>

\* C1: areTypesCompatible('int*', 'float*') returns false, while
\* areTypesCompatible('int*', 'int*') and areTypesCompatible('float*',
\* 'float*') return true (the assertions of the pointer test).
C1_PointerTest ==
    Returned =>
        /\ (targetType = IntPtr /\ sourceType = FloatPtr => compatResult = <<FALSE>>)
        /\ (targetType = IntPtr /\ sourceType = IntPtr => compatResult = <<TRUE>>)
        /\ (targetType = FloatPtr /\ sourceType = FloatPtr => compatResult = <<TRUE>>)

\* C2: a call with 'any' as either argument returns true, whatever the
\* other argument is.
C2_AnyCompatible ==
    (Returned /\ (targetType = <<"any">> \/ sourceType = <<"any">>))
        => compatResult = <<TRUE>>

C2_Witness ==
    /\ Returned
    /\ targetType = <<"string", "[", "]">>
    /\ sourceType = <<"any">>
    /\ compatResult = <<TRUE>>

\* C3: a call with the same descriptor as both arguments returns true,
\* array- and pointer-suffixed descriptors included.
C3_Reflexive ==
    (Returned /\ targetType = sourceType) => compatResult = <<TRUE>>

C3_Witness ==
    /\ Returned
    /\ targetType = <<"boolean", "[", "]", "*">>
    /\ sourceType = targetType
    /\ compatResult = <<TRUE>>

NumericSet == { <<"number">>, <<"int">>, <<"float">>, <<"double">> }

\* C4: a call whose arguments are both among 'number', 'int', 'float',
\* 'double' returns true, in either argument order.
C4_NumericPairs ==
    (Returned /\ targetType \in NumericSet /\ sourceType \in NumericSet)
        => compatResult = <<TRUE>>

C4_Witness ==
    /\ Returned
    /\ targetType = <<"double">>
    /\ sourceType = <<"int">>
    /\ compatResult = <<TRUE>>

\* a descriptor that ends with '[]', one that ends with '*', and a
\* descriptor without its last n pieces
IsArrayType(t) == Len(t) >= 2 /\ t[Len(t) - 1] = "[" /\ t[Len(t)] = "]"
IsPointerType(t) == Len(t) >= 1 /\ t[Len(t)] = "*"
WithoutLast(t, n) == [i \in 1..(Len(t) - n) |-> t[i]]

\* C5: a call on two array types A[] and B[] returns what the call on
\* their bases A and B returns; ('number[]', 'number[]') gives true and
\* ('number[]', 'string[]') gives false.
C5_ArrayByBase ==
    Returned =>
        /\ (IsArrayType(targetType) /\ IsArrayType(sourceType))
              => compatResult = <<areTypesCompatible(WithoutLast(targetType, 2),
                                                     WithoutLast(sourceType, 2))>>
        /\ (targetType = <<"number", "[", "]">> /\ sourceType = <<"number", "[", "]">>
              => compatResult = <<TRUE>>)
        /\ (targetType = <<"number", "[", "]">> /\ sourceType = <<"string", "[", "]">>
              => compatResult = <<FALSE>>)

C5_Witness ==
    /\ Returned
    /\ targetType = <<"int", "[", "]">>
    /\ sourceType = <<"float", "[", "]">>
    /\ compatResult = <<TRUE>>

\* C6: a call on two different descriptors, neither 'any', not both
\* numeric, not both array types and not both pointer types, returns
\* false; so an array type is compatible neither with a pointer type nor
\* with an unsuffixed type other than 'any'.
C6_OtherwiseIncompatible ==
    Returned =>
        /\ ( /\ targetType # <<"any">>
             /\ sourceType # <<"any">>
             /\ targetType # sourceType
             /\ ~(targetType \in NumericSet /\ sourceType \in NumericSet)
             /\ ~(IsArrayType(targetType) /\ IsArrayType(sourceType))
             /\ ~(IsPointerType(targetType) /\ IsPointerType(sourceType)) )
           => compatResult = <<FALSE>>
        /\ (targetType = <<"string">> /\ sourceType = <<"number">>
              => compatResult = <<FALSE>>)
        /\ (targetType = <<"boolean">> /\ sourceType = <<"string">>
              => compatResult = <<FALSE>>)
        /\ \A a, b \in {targetType, sourceType} :
              (IsArrayType(a) /\ (IsPointerType(b) \/ (~IsArrayType(b) /\ b # <<"any">>)))
                  => compatResult = <<FALSE>>

C6_Witness ==
    /\ Returned
    /\ targetType = <<"int", "[", "]">>
    /\ sourceType = <<"int", "*">>
    /\ compatResult = <<FALSE>>

\* C7: a call returns what the call with the two arguments exchanged
\* returns.
C7_Symmetric ==
    Returned => compatResult = <<areTypesCompatible(sourceType, targetType)>>

C7_Witness ==
    /\ Returned
    /\ targetType = <<"any", "*">>
    /\ sourceType = <<"string", "*">>
    /\ compatResult = <<TRUE>>

(***************************************************************************)
(* Properties of the registry.                                             *)
(***************************************************************************)
\* what a scope argument stands for
ScopeOf(s) == IF s = "<omitted>" THEN "local" ELSE s

\* C8: after registerVariable(name, type, scope), getVariableType(name) is
\* exactly type and isVariableDeclared(name) is true; a call of
\* getVariableType returns the registered type of its name, or null for a
\* name that is not registered, and a call of isVariableDeclared returns
\* whether its name is registered; a lookup changes nothing of the registry.
C8_RegisterThenLookup ==
    /\ [][\A n \in VarNames, t \in ApiTypes, s \in Scopes \cup {"<omitted>"} :
            RegisterVariable(n, t, s) =>
                /\ getVariableType(variableTypes', n) = t
                /\ isVariableDeclared(variableTypes', n) = TRUE]_vars
    /\ [](ret.op = "getVariableType" =>
            IF ret.arg \in DOMAIN variableTypes
            THEN ret.value = variableTypes[ret.arg].type
            ELSE ret.value = <<"<null>">>)
    /\ [](ret.op = "isVariableDeclared" =>
            ret.value = (ret.arg \in DOMAIN variableTypes))
    /\ [][ret'.op \in {"getVariableType", "isVariableDeclared"}
            => registry' = registry]_vars

C8_Witness ==
    /\ ret.op = "getVariableType"
    /\ ret.arg = "counter"
    /\ ret.value = <<"int", "*">>
    /\ "name" \notin DOMAIN variableTypes

\* C9: registerVariable(name, type, scope) yields a record for name in every
\* state of the registry, and adds no diagnostic; afterwards the record of
\* name is {type, scope, declared: true}, with scope 'local' when it was
\* left out, whether or not name was registered before; the record of every
\* other name is as before; and a second call with the same arguments
\* changes nothing.
C9_RegisterOverwrites ==
    /\ [](\A n \in VarNames, t \in ApiTypes, s \in Scopes \cup {"<omitted>"} :
             registerVariable(variableTypes, n, t, s)[n].declared = TRUE)
    /\ [][\A n \in VarNames, t \in ApiTypes, s \in Scopes \cup {"<omitted>"} :
            RegisterVariable(n, t, s) =>
                /\ typeErrors' = typeErrors
                /\ DOMAIN variableTypes' = DOMAIN variableTypes \cup {n}
                /\ variableTypes'[n] = [type |-> t, scope |-> ScopeOf(s), declared |-> TRUE]
                /\ \A m \in DOMAIN variableTypes \ {n} : variableTypes'[m] = variableTypes[m]
                /\ registerVariable(variableTypes', n, t, s) = variableTypes']_vars

C9_Witness ==
    /\ ret.op = "isVariableDeclared"
    /\ ret.value = TRUE
    /\ variableTypes =
          [k \in {"counter", "name"} |->
              IF k = "counter"
              THEN [type |-> <<"number", "[", "]">>, scope |-> "local", declared |-> TRUE]
              ELSE [type |-> <<"any">>, scope |-> "global", declared |-> TRUE]]

\* message.includes(phrase), for the phrases the diagnostics are told by
MessageIncludes(message, phrase) ==
    \E i \in DOMAIN message :
        \/ phrase = "already declared" /\ message[i] = " is already declared"
        \/ phrase = "Type mismatch"
              /\ message[i] \in {"Type mismatch: expected ", "Type mismatch: cannot assign "}

IsDeclarationBlock(block) ==
    block.type \in {"typed_global_declaration", "typed_local_declaration_statement"}

\* the scan goes through the block at scanIndex in this step
ScansBlock == scanIndex \in 1..Len(workspace) /\ scanIndex' = scanIndex + 1

\* C10: when the scan goes through a declaration block, global or local,
\* whose name is registered already, it appends one diagnostic of severity
\* error whose message contains 'already declared' and leaves the variable
\* map as it is: the record keeps its type and scope, whatever the kinds of
\* the two declarations.
C10_DuplicateDeclaration ==
    [][(/\ ScansBlock
        /\ IsDeclarationBlock(workspace[scanIndex])
        /\ workspace[scanIndex].name \in DOMAIN variableTypes)
          => /\ Len(typeErrors') = Len(typeErrors) + 1
             /\ SubSeq(typeErrors', 1, Len(typeErrors)) = typeErrors
             /\ typeErrors'[Len(typeErrors')].severity = "error"
             /\ typeErrors'[Len(typeErrors')].block = scanIndex
             /\ MessageIncludes(typeErrors'[Len(typeErrors')].message, "already declared")
             /\ variableTypes' = variableTypes]_vars

C10_Witness ==
    /\ workspace = <<[type |-> "typed_global_declaration", name |-> "counter",
                      varType |-> <<"number">>],
                     [type |-> "typed_local_declaration_statement", name |-> "counter",
                      varType |-> <<"string">>]>>
    /\ scanIndex = 3
    /\ Len(typeErrors) = 1
    /\ typeErrors[1].block = 2
    /\ MessageIncludes(typeErrors[1].message, "already declared")
    /\ variableTypes = [k \in {"counter"} |->
                          [type |-> <<"number">>, scope |-> "global", declared |-> TRUE]]

(***************************************************************************)
(* Properties of the scan of getter and setter blocks.                     *)
(***************************************************************************)
\* the step appended exactly one diagnostic, a type mismatch on the block
\* scanned
AddedMismatch ==
    /\ Len(typeErrors') = Len(typeErrors) + 1
    /\ SubSeq(typeErrors', 1, Len(typeErrors)) = typeErrors
    /\ typeErrors'[Len(typeErrors')].block = scanIndex
    /\ typeErrors'[Len(typeErrors')].severity = "error"
    /\ MessageIncludes(typeErrors'[Len(typeErrors')].message, "Type mismatch")

\* the pieces of des occur in message, in order and next to each other
MessageNames(message, des) ==
    \E i \in 0..(Len(message) - Len(des)) :
        \A j \in 1..Len(des) : message[i + j] = des[j]

ScanDone == scanIndex = Len(workspace) + 1

\* C11: when the scan goes through a variable-set block whose name is
\* registered, it adds a 'Type mismatch' diagnostic if and only if
\* areTypesCompatible(registered type, assigned type) is false, whatever the
\* registered type descriptor; a setter of string on counter:number gives a
\* 'Type mismatch' diagnostic and a setter of int on it gives none.
C11_SetterMismatch ==
    /\ [][(/\ ScansBlock
           /\ workspace[scanIndex].type = "typed_lexical_variable_set"
           /\ workspace[scanIndex].name \in DOMAIN variableTypes)
             => IF areTypesCompatible(variableTypes[workspace[scanIndex].name].type,
                                      workspace[scanIndex].varType)
                THEN typeErrors' = typeErrors
                ELSE AddedMismatch]_vars
    /\ []((/\ ScanDone
           /\ Len(workspace) = 1
           /\ workspace[1].type = "typed_lexical_variable_set"
           /\ workspace[1].name = "counter"
           /\ "counter" \in DOMAIN variableTypes
           /\ variableTypes["counter"].type = <<"number">>)
             => /\ workspace[1].varType = <<"string">>
                    => \E i \in DOMAIN typeErrors :
                          MessageIncludes(typeErrors[i].message, "Type mismatch")
                /\ workspace[1].varType = <<"int">>
                    => \A i \in DOMAIN typeErrors :
                          ~MessageIncludes(typeErrors[i].message, "Type mismatch"))

\* C12: when the scan goes through a variable-get block whose name is
\* registered, it adds a 'Type mismatch' diagnostic if and only if
\* areTypesCompatible(expected type, registered type) is false, whatever the
\* registered type descriptor; the message of the diagnostic names the
\* expected type, the registered type and the variable.
C12_GetterMismatch ==
    [][(/\ ScansBlock
        /\ workspace[scanIndex].type = "typed_lexical_variable_get"
        /\ workspace[scanIndex].name \in DOMAIN variableTypes)
          => IF areTypesCompatible(workspace[scanIndex].varType,
                                   variableTypes[workspace[scanIndex].name].type)
             THEN typeErrors' = typeErrors
             ELSE /\ AddedMismatch
                  /\ LET message == typeErrors'[Len(typeErrors')].message
                     IN  /\ MessageNames(message, workspace[scanIndex].varType)
                         /\ MessageNames(message,
                                variableTypes[workspace[scanIndex].name].type)
                         /\ MessageNames(message, <<workspace[scanIndex].name>>)]_vars

(***************************************************************************)
(* Properties of the life of a registry, under SpecLife.                   *)
(***************************************************************************)
\* C13: after reset() the variable map, the block-metadata map and the
\* diagnostic list are empty, whatever they held before:
\* getVariableTypeSummary() is an empty mapping, getTypeErrors() an empty
\* list, every getBlockType null, and the three stores are those of a newly
\* constructed registry.
C13_ResetEmpties ==
    ret.op = "reset" =>
        /\ getVariableTypeSummary(variableTypes) = EmptyMap
        /\ typeErrors = << >>
        /\ \A id \in BlockIds : getBlockType(blockTypes, id) = NullInfo
        /\ \A n \in VarNames :
               /\ ~isVariableDeclared(variableTypes, n)
               /\ getVariableType(variableTypes, n) = Null
        /\ variableTypes = EmptyMap
        /\ blockTypes = EmptyMap

\* reset() has just returned, called after a scan and a registration of
\* block metadata
C13_Witness ==
    /\ ret.op = "reset"
    /\ Len(workspace) = 2
    /\ registry = <<EmptyMap, EmptyMap, << >> >>

\* an importTypeInfo call whose argument is what exportTypeInfo() returns in
\* the state of the call
ImportsOwnExport ==
    /\ ret'.op = "importTypeInfo"
    /\ ret'.arg = exportTypeInfo(Stores)

JsonRepresentable == \A id \in DOMAIN blockTypes : JsonInfo(blockTypes[id]) = blockTypes[id]

C15_FailedImportKeepsState ==
    [][(ret'.op = "importTypeInfo" /\ ret'.arg.kind \in {"unparsable", "null"}) =>
           /\ variableTypes' = variableTypes
           /\ blockTypes' = blockTypes
           /\ typeErrors' = typeErrors
           /\ ret'.value = "undefined, error logged"]_vars

\* importTypeInfo('null') has returned in a registry that holds a variable,
\* block metadata and a diagnostic
C15_Witness ==
    /\ ret.op = "importTypeInfo"
    /\ ret.arg = NullText
    /\ variableTypes # EmptyMap
    /\ blockTypes # EmptyMap
    /\ typeErrors # << >>

\* C16: a successful importTypeInfo replaces the three stores by what the
\* document holds: a top-level field that the document has gives the store
\* its content, a field that it lacks leaves the store empty, and no name or
\* block id absent from the document is registered afterwards.
C16_ImportReplaces ==
    [][(ret'.op = "importTypeInfo" /\ ret'.arg.kind = "object") =>
           LET doc == ret'.arg
           IN  /\ variableTypes' = IF "variableTypes" \in doc.has
                                   THEN doc.variableTypes ELSE EmptyMap
               /\ blockTypes' = IF "blockTypes" \in doc.has
                                THEN doc.blockTypes ELSE EmptyMap
               /\ typeErrors' = IF "typeErrors" \in doc.has
                                THEN doc.typeErrors ELSE << >>
               /\ \A n \in DOMAIN variableTypes \ DOMAIN doc.variableTypes :
                      ~isVariableDeclared(variableTypes', n)
               /\ \A id \in DOMAIN blockTypes \ DOMAIN doc.blockTypes :
                      getBlockType(blockTypes', id) = NullInfo]_vars

\* a document with block metadata and a diagnostic but no variable map has
\* just been imported: the registry holds what the document holds and no
\* variable
C16_Witness ==
    /\ ret.op = "importTypeInfo"
    /\ ret.arg = NoVariables
    /\ Len(workspace) > 0
    /\ variableTypes = EmptyMap
    /\ blockTypes = NoVariables.blockTypes
    /\ typeErrors = NoVariables.typeErrors

\* C17: after registerBlockType(blockId, info), for every block id and
\* every info value, getBlockType(blockId) returns that info; for an id
\* that is not registered it returns null; and registerBlockType never
\* changes the variable map, even when the id is a variable name.
C17_BlockTypeLookup ==
    /\ [](\A id \in BlockIds :
             ~MapHas(blockTypes, id) => getBlockType(blockTypes, id) = NullInfo)
    /\ [][\A id \in BlockIds, info \in Infos :
             RegisterBlockType(id, info) =>
                 /\ getBlockType(blockTypes', id) = info
                 /\ variableTypes' = variableTypes]_vars

\* C17, amended: after registerBlockType(blockId, info) getBlockType(blockId)
\* returns that info when the info is a truthy value (any object) and null
\* when it is a falsy one (such as 0); for an id that is not registered it
\* returns null; a getBlockType call returns just that; and
\* registerBlockType never changes the variable map, even when the id is a
\* variable name.
C17_BlockTypeLookupTruthy ==
    /\ [](\A id \in BlockIds :
             ~MapHas(blockTypes, id) => getBlockType(blockTypes, id) = NullInfo)
    /\ [](ret.op = "getBlockType" =>
             ret.value = IF MapHas(blockTypes, ret.arg) /\ blockTypes[ret.arg] # InfoZero
                         THEN blockTypes[ret.arg] ELSE NullInfo)
    /\ [][\A id \in BlockIds, info \in Infos :
             RegisterBlockType(id, info) =>
                 /\ (info \in {InfoPlain, InfoMap} =>
                        getBlockType(blockTypes', id) = info)
                 /\ (info = InfoZero => getBlockType(blockTypes', id) = NullInfo)
                 /\ variableTypes' = variableTypes]_vars

\* getBlockType('counter') has returned the object registered for the id
\* 'counter', while a variable named counter is registered too
C17_Witness ==
    /\ ret.op = "getBlockType"
    /\ ret.arg = "counter"
    /\ ret.value = InfoPlain
    /\ MapHas(blockTypes, "counter")
    /\ isVariableDeclared(variableTypes, "counter")
    /\ getVariableType(variableTypes, "counter") = <<"number">>

\* the diagnostics are those of the blocks scanned so far, in the order of
\* the blocks, at most one for a block
OfThisScan ==
    /\ \A k \in DOMAIN typeErrors : typeErrors[k].block \in 1..(scanIndex - 1)
    /\ \A j, k \in DOMAIN typeErrors :
           j < k => typeErrors[j].block < typeErrors[k].block

\* C18: checkTypeErrors() starts from an empty diagnostic list whatever an
\* earlier scan or import left, every step of its loop adds at most the
\* diagnostic of the block it scans, and it returns the list; so the list
\* after the return holds exactly the diagnostics of this scan.  What
\* getTypeErrors() returns is that list, and the list changes only in a
\* scan, a clearTypeErrors, a reset or an importTypeInfo.
C18_ScanRecomputes ==
    /\ [](scanIndex # 0 => OfThisScan)
    /\ [](ret.op \in {"checkTypeErrors", "getTypeErrors"} => ret.value = typeErrors)
    /\ [][/\ (scanIndex = 0 /\ scanIndex' = 1) => typeErrors' = << >>
          /\ ScansBlock =>
                 \/ typeErrors' = typeErrors
                 \/ /\ Len(typeErrors') = Len(typeErrors) + 1
                    /\ SubSeq(typeErrors', 1, Len(typeErrors)) = typeErrors
                    /\ typeErrors'[Len(typeErrors')].block = scanIndex
          /\ (scanIndex # 0 /\ scanIndex' = 0) =>
                 /\ typeErrors' = typeErrors
                 /\ ret'.op = "checkTypeErrors"
                 /\ ret'.value = typeErrors
          /\ typeErrors' # typeErrors =>
                 \/ scanIndex' # 0
                 \/ ClearTypeErrors
                 \/ ret'.op \in {"reset", "importTypeInfo"}]_vars

\* a scan of two declarations of counter has returned two diagnostics, one
\* for each block: counter was registered with local scope, by an earlier
\* scan, whose diagnostic for the second block is not there a second time
C18_Witness ==
    /\ ret.op = "checkTypeErrors"
    /\ Len(workspace) = 2
    /\ \A i \in 1..2 : IsDeclarationBlock(workspace[i])
    /\ variableTypes["counter"].scope = "local"
    /\ Len(typeErrors) = 2
    /\ typeErrors[1].block = 1
    /\ typeErrors[2].block = 2
    /\ ret.value = typeErrors

\* C19: a record of the variable map keeps its type and its scope in every
\* step that is not a reset(), whatever the step is (registerVariable,
\* checkTypeErrors, importTypeInfo, clearTypeErrors).
C19_RecordNeverMutated ==
    [][ret'.op # "reset" =>
           \A n \in DOMAIN variableTypes \cap DOMAIN variableTypes' :
               /\ variableTypes'[n].type = variableTypes[n].type
               /\ variableTypes'[n].scope = variableTypes[n].scope]_vars

\* the record of name n is removed or changed in the step
RecordTouched(n) ==
    \/ ~MapHas(variableTypes', n)
    \/ variableTypes'[n] # variableTypes[n]

\* C19, amended: a record of the variable map is changed or removed only by
\* registerVariable for its name, by a successful importTypeInfo or by
\* reset(); a step of checkTypeErrors, a clearTypeErrors, a
\* registerBlockType, a lookup and an exportTypeInfo leave every existing
\* record as it is.
C19_RecordChangedOnlyBy ==
    [][\A n \in DOMAIN variableTypes :
           RecordTouched(n) =>
               \/ ret'.op = "reset"
               \/ ret'.op = "importTypeInfo" /\ ret'.arg.kind = "object"
               \/ \E t \in VarTypes, s \in Scopes \cup {Omitted} :
                      RegisterVariable(n, t, s)]_vars

\* a scan has met a local declaration of counter as a number while counter
\* was registered as a global string: the record is as it was
C19_Witness ==
    /\ ret.op = "checkTypeErrors"
    /\ Len(workspace) > 0
    /\ workspace[1] = [type |-> "typed_local_declaration_statement",
                       name |-> "counter", varType |-> <<"number">>]
    /\ Len(typeErrors) > 0
    /\ typeErrors[1].block = 1
    /\ MapHas(variableTypes, "counter")
    /\ variableTypes["counter"] = VariableRecord(<<"string">>, "global")

(***************************************************************************)
(* The order of the blocks in a scan, under Spec.                          *)
(***************************************************************************)
IsUseBlock(block) ==
    block.type \in {"typed_lexical_variable_get", "typed_lexical_variable_set"}

\* the scan in progress has added a diagnostic for the block at position i
Flagged(i) == \E k \in DOMAIN typeErrors : typeErrors[k].block = i

C22_OtherKindIgnored ==
    [][(/\ ScansBlock
        /\ ~IsUseBlock(workspace[scanIndex])
        /\ ~IsDeclarationBlock(workspace[scanIndex]))
          => /\ typeErrors' = typeErrors
             /\ variableTypes' = variableTypes
             /\ blockTypes' = blockTypes]_vars

\* the scan has passed a controls_if block that carries the name counter
\* and the type number while counter is registered as a string: nothing
\* was added
C22_Witness ==
    /\ Len(workspace) = 1
    /\ workspace[1].type = "controls_if"
    /\ scanIndex = 2
    /\ typeErrors = << >>
    /\ DOMAIN variableTypes = {"counter"}
    /\ variableTypes["counter"].type = <<"string">>

\* C23: a step of the scan on a declaration block whose name is not
\* registered adds no diagnostic and registers the name with the declared
\* type, with scope 'global' for a global declaration and 'local' for a
\* local one; the other names keep their records.
C23_FreshDeclaration ==
    [][(/\ ScansBlock
        /\ IsDeclarationBlock(workspace[scanIndex])
        /\ workspace[scanIndex].name \notin DOMAIN variableTypes)
          => LET block == workspace[scanIndex]
             IN  /\ typeErrors' = typeErrors
                 /\ DOMAIN variableTypes' = DOMAIN variableTypes \cup {block.name}
                 /\ getVariableType(variableTypes', block.name) = block.varType
                 /\ variableTypes'[block.name].declared = TRUE
                 /\ (block.type = "typed_global_declaration"
                        => variableTypes'[block.name].scope = "global")
                 /\ (block.type = "typed_local_declaration_statement"
                        => variableTypes'[block.name].scope = "local")
                 /\ \A n \in DOMAIN variableTypes :
                        variableTypes'[n] = variableTypes[n]]_vars

\* the scan of a global declaration of name and a local declaration of
\* counter has ended without a diagnostic and with both names registered,
\* each with the scope of its block
C23_Witness ==
    /\ ScanDone
    /\ workspace = <<[type |-> "typed_global_declaration", name |-> "name",
                      varType |-> <<"string">>],
                     [type |-> "typed_local_declaration_statement",
                      name |-> "counter", varType |-> <<"number">>]>>
    /\ typeErrors = << >>
    /\ DOMAIN variableTypes = {"counter", "name"}
    /\ variableTypes["name"] = VariableRecord(<<"string">>, "global")
    /\ variableTypes["counter"] = VariableRecord(<<"number">>, "local")

(***************************************************************************)
(* The diagnostic list between scans, under SpecLife.                      *)
(***************************************************************************)
\* C24: clearTypeErrors() empties the diagnostic list, starts no scan and
\* leaves the variable map and the block-metadata map as they are;
\* getTypeErrors() returns the diagnostic list as it is, starts no scan and
\* changes none of the three stores.
C24_ClearAndGet ==
    [][/\ ret'.op = "clearTypeErrors" =>
              /\ typeErrors' = << >>
              /\ variableTypes' = variableTypes
              /\ blockTypes' = blockTypes
              /\ scanIndex' = 0
              /\ workspace' = workspace
       /\ ret'.op = "getTypeErrors" =>
              /\ ret'.value = typeErrors
              /\ variableTypes' = variableTypes
              /\ blockTypes' = blockTypes
              /\ typeErrors' = typeErrors
              /\ scanIndex' = 0
              /\ workspace' = workspace]_vars

\* clearTypeErrors() has returned: the list is empty although the two
\* declarations of counter in the workspace would give a diagnostic in a
\* scan, and the variable and the block metadata are still registered
C24_Witness ==
    /\ ret.op = "clearTypeErrors"
    /\ typeErrors = << >>
    /\ Len(workspace) = 2
    /\ \A i \in 1..2 : IsDeclarationBlock(workspace[i])
    /\ isVariableDeclared(variableTypes, "counter")
    /\ MapHas(blockTypes, "block1")

(***************************************************************************)
(* getVariableTypeSummary, under SpecSummary.                              *)
(***************************************************************************)
\* C25: getVariableTypeSummary() returns a mapping with exactly one entry
\* for every registered name, holding that name's record, and the call
\* changes none of the three stores.
C25_SummarySnapshot ==
    [][ret'.op = "getVariableTypeSummary" =>
           /\ DOMAIN ret'.value = DOMAIN variableTypes
           /\ \A n \in DOMAIN variableTypes \cap DOMAIN ret'.value :
                  ret'.value[n] = variableTypes[n]
           /\ registry' = registry]_vars

(***************************************************************************)
(* Two scans of one block list, under SpecLife.                            *)
(***************************************************************************)
\* the list of diagnostics has an 'already declared' one for the block at
\* position i
FlaggedDeclared(errors, i) ==
    \E k \in DOMAIN errors :
        /\ errors[k].block = i
        /\ MessageIncludes(errors[k].message, "already declared")

\* checkTypeErrors() starts right after checkTypeErrors() has returned:
\* the second of two scans of the same block list
SecondScanStarts ==
    /\ ret.op = "checkTypeErrors"
    /\ scanIndex = 0
    /\ scanIndex' = 1

\* the diagnostics that the scan which has just started will return
ThisScanResult ==
    checkBlocksFrom([variableTypes |-> variableTypes', typeErrors |-> typeErrors'],
                    workspace', 1).typeErrors

\* C26: when a block list with a declaration block in it is scanned twice
\* with no reset() in between, the second scan returns an 'already
\* declared' diagnostic for every declaration block of the list, and its
\* diagnostic list differs from the one the first scan returned.
C26_SecondScanDiffers ==
    [][(SecondScanStarts /\ \E i \in DOMAIN workspace : IsDeclarationBlock(workspace[i])) =>
           /\ \A i \in DOMAIN workspace :
                  IsDeclarationBlock(workspace[i]) => FlaggedDeclared(ThisScanResult, i)
           /\ ThisScanResult # ret.value]_vars

\* C26, amended: checkTypeErrors() does not clear the variable map.  Once
\* a scan has passed a declaration block its name is registered, so when a
\* block list is scanned twice with nothing in between the second scan
\* returns an 'already declared' diagnostic for every declaration block of
\* the list, names declared only once included; its list differs from the
\* first scan's exactly when the first scan accepted a declaration, that
\* is when the list declares a name that was not registered before.
C26_SecondScanFlagsAll ==
    /\ [](scanIndex # 0 =>
             \A i \in 1..(scanIndex - 1) :
                 IsDeclarationBlock(workspace[i]) =>
                     isVariableDeclared(variableTypes, workspace[i].name))
    /\ [][(scanIndex = 0 /\ scanIndex' = 1) => variableTypes' = variableTypes]_vars
    /\ [][SecondScanStarts =>
             /\ \A i \in DOMAIN workspace :
                    IsDeclarationBlock(workspace[i]) => FlaggedDeclared(ThisScanResult, i)
             /\ (ThisScanResult # ret.value) <=>
                    (\E i \in DOMAIN workspace :
                         /\ IsDeclarationBlock(workspace[i])
                         /\ ~FlaggedDeclared(ret.value, i))]_vars

\* the second scan of a list that declares counter once has ended with an
\* 'already declared' diagnostic for that one declaration: counter has the
\* local scope that only a scan gives
C26_Witness ==
    /\ ScanDone
    /\ workspace = <<[type |-> "typed_local_declaration_statement",
                      name |-> "counter", varType |-> <<"number">>]>>
    /\ variableTypes["counter"] = VariableRecord(<<"number">>, "local")
    /\ Len(typeErrors) = 1
    /\ FlaggedDeclared(typeErrors, 1)

(***************************************************************************)
(* What a scan leaves alone, under SpecLife.                               *)
(***************************************************************************)
\* the step belongs to a scan: its start, the check of a block or its return
ScanStep == scanIndex # 0 \/ scanIndex' # 0

\* C27: no step of a scan removes a record or changes the type or scope of
\* a record that is there, so the names registered after a scan include
\* those registered before it; no step of a scan changes the
\* block-metadata map; the check of a block adds at most one diagnostic,
\* at the end of the list and for that block, and nothing else changes
\* the list during a scan after its start.
C27_ScanOnlyAdds ==
    [][ScanStep =>
           /\ DOMAIN variableTypes \subseteq DOMAIN variableTypes'
           /\ \A n \in DOMAIN variableTypes :
                  /\ variableTypes'[n].type = variableTypes[n].type
                  /\ variableTypes'[n].scope = variableTypes[n].scope
           /\ blockTypes' = blockTypes
           /\ (scanIndex # 0) =>
                  \/ typeErrors' = typeErrors
                  \/ /\ ScansBlock
                     /\ typeErrors' = Append(typeErrors, typeErrors'[Len(typeErrors')])
                     /\ typeErrors'[Len(typeErrors')].block = scanIndex
                     /\ \A k \in DOMAIN typeErrors : typeErrors[k].block < scanIndex]_vars

\* a scan of a declaration of counter and a setter of counter has ended in
\* a registry that held the variable name and metadata for block1: both
\* are still there, counter is registered and the setter has its diagnostic
C27_Witness ==
    /\ ScanDone
    /\ Len(workspace) = 2
    /\ IsDeclarationBlock(workspace[1])
    /\ IsUseBlock(workspace[2])
    /\ DOMAIN variableTypes = {"counter", "name"}
    /\ variableTypes["name"] = VariableRecord(<<"string">>, "global")
    /\ variableTypes["counter"].scope = "local"
    /\ MapHas(blockTypes, "block1")
    /\ Len(typeErrors) = 1
    /\ typeErrors[1].block = 2

====
